---- MODULE Spec2Model ----
(***************************************************************************)
(* A model of OrthoEvidenceProcessor (src/evidence_processor.py): the      *)
(* SQLite store with its base tables and five derived tables, the import   *)
(* of literature rows, the five generate_* operations and                  *)
(* generate_all_evidence_data with their commit / rollback behaviour,      *)
(* reset_database, the necessity score and the lookups by age.             *)
(*                                                                         *)
(* Conventions of the model                                                *)
(*  - Python floats are exact rationals <<n, d>> with d > 0, in lowest     *)
(*    terms.                                                               *)
(*  - A number inside a text is written in tenths: 420 stands for "42.0"   *)
(*    and 25 for "2.5".  An extracted effect value is <<>> for None and    *)
(*    <<r>> for the float r.                                               *)
(*  - A text is a sequence of tokens; the Japanese keywords of the source  *)
(*    are written in romaji: josho, zoka, takamaru, bai (the "times"       *)
(*    multiplier sign), teika, gensho, kaizen.                             *)
(***************************************************************************)
EXTENDS Integers, Sequences, FiniteSets

VARIABLES
    research_papers,    \* committed rows of research_papers
    research_findings,  \* committed rows of research_findings
    dental_issues,      \* committed rows of dental_issues (reference data)
    committed,          \* the five derived tables as committed in the store
    conn,               \* the five derived tables as self.conn sees them
    pc,                 \* position of the running generate call
    pre,                \* committed derived tables when the latest call began
    last,               \* the latest finished call and how it ended
    runs,               \* generate calls begun so far
    score,              \* arguments and return value of the latest scoring call
    probe,              \* arguments and result of the latest call of a helper
    schema              \* whether the tables of the database exist

vars == <<research_papers, research_findings, dental_issues, committed, conn,
          pc, pre, last, runs, score, probe, schema>>

\* ------------------------------------------------------------------------
\* Bounds of the model
\* ------------------------------------------------------------------------

\* most CSV rows imported in one behaviour
MaxRows == 2

\* most generate_* / generate_all_evidence_data calls in one behaviour
MaxRuns == 2

\* most tokens of a text handed to _parse_risk_description on its own
TextLen == 4

\* most other Findings in a bucket whose average is taken on its own
BucketLen == 2

\* ------------------------------------------------------------------------
\* Float arithmetic
\* ------------------------------------------------------------------------

Abs(x) == IF x < 0 THEN -x ELSE x

RECURSIVE GCD(_, _)
GCD(a, b) == IF b = 0 THEN a ELSE GCD(b, a % b)

\* the float n/d
Rat(n, d) ==
    LET s == IF d < 0 THEN -1 ELSE 1
        g == GCD(Abs(n), Abs(d))
    IN  <<(s * n) \div g, (s * d) \div g>>

Int2Rat(i) == <<i, 1>>
RatAdd(a, b) == Rat(a[1] * b[2] + b[1] * a[2], a[2] * b[2])
RatSub(a, b) == Rat(a[1] * b[2] - b[1] * a[2], a[2] * b[2])
RatMul(a, b) == Rat(a[1] * b[1], a[2] * b[2])
RatDiv(a, b) == Rat(a[1] * b[2], a[2] * b[1])
RatLeq(a, b) == a[1] * b[2] <= b[1] * a[2]
RatLt(a, b) == a[1] * b[2] < b[1] * a[2]
RatMin(a, b) == IF RatLeq(a, b) THEN a ELSE b
RatMax(a, b) == IF RatLeq(a, b) THEN b ELSE a
RatAbs(a) == <<Abs(a[1]), a[2]>>

\* Python round(): to the nearest integer, ties to the even one
Round(a) ==
    LET q == a[1] \div a[2]
        r == a[1] - q * a[2]
    IN  IF 2 * r < a[2] THEN q
        ELSE IF 2 * r > a[2] THEN q + 1
        ELSE IF q % 2 = 0 THEN q ELSE q + 1

\* ------------------------------------------------------------------------
\* Texts
\* ------------------------------------------------------------------------

Num(n) == [k |-> "num", n |-> n]
W(s) == [k |-> s, n |-> 0]

HasWord(text, s) == \E i \in 1..Len(text) : text[i].k = s

\* re.search(r'(\d+\.?\d*)<unit>', text): the leftmost number directly
\* followed by the unit; <<>> when there is no match, else <<tenths>>
SearchNumber(text, unit) ==
    LET hits == {i \in 1..(Len(text) - 1) :
                    text[i].k = "num" /\ text[i + 1].k = unit}
    IN  IF hits = {} THEN <<>>
        ELSE <<text[CHOOSE i \in hits : \A j \in hits : i <= j].n>>

\* variant: the multiplier pattern tried before the percentage pattern
parse_effect_value_multiplier_first(risk_description) ==
    LET pct == SearchNumber(risk_description, "%")
        mul == SearchNumber(risk_description, "bai")
    IN  IF mul # <<>>
        THEN <<RatSub(RatMul(Rat(mul[1], 10), Int2Rat(100)), Int2Rat(100))>>
        ELSE IF pct # <<>> THEN <<Rat(pct[1], 10)>>
             ELSE <<>>

parse_effect_value(risk_description) ==
    LET pct == SearchNumber(risk_description, "%")
        mul == SearchNumber(risk_description, "bai")
    IN  IF pct # <<>> THEN <<Rat(pct[1], 10)>>
        ELSE IF mul # <<>>
             THEN <<RatSub(RatMul(Rat(mul[1], 10), Int2Rat(100)), Int2Rat(100))>>
             ELSE <<>>

parse_effect_direction(risk_description) ==
    IF \/ HasWord(risk_description, "josho")
       \/ HasWord(risk_description, "zoka")
       \/ HasWord(risk_description, "takamaru")
       \/ HasWord(risk_description, "bai")
    THEN "increase"
    ELSE IF \/ HasWord(risk_description, "teika")
            \/ HasWord(risk_description, "gensho")
            \/ HasWord(risk_description, "kaizen")
         THEN "decrease"
         ELSE "neutral"

\* (effect_value, effect_direction)
parse_risk_description(risk_description) ==
    <<parse_effect_value(risk_description),
      parse_effect_direction(risk_description)>>

\* age group text -> (age_min, age_max); the keys are shoni, shoni_seinen,
\* seinen, seinen_seijin, seijin, seijin_koreisha, koreisha, zen_nenrei
parse_age_group(age_group) ==
    CASE age_group = "shoni" -> <<3, 12>>
      [] age_group = "shoni_seinen" -> <<3, 18>>
      [] age_group = "seinen" -> <<13, 18>>
      [] age_group = "seinen_seijin" -> <<13, 59>>
      [] age_group = "seijin" -> <<19, 59>>
      [] age_group = "seijin_koreisha" -> <<19, 100>>
      [] age_group = "koreisha" -> <<60, 100>>
      [] age_group = "zen_nenrei" -> <<1, 100>>
      [] OTHER -> <<1, 100>>

\* Python truthiness of an extracted value: None and 0.0 are false
Truthy(effect_value) == effect_value # <<>> /\ effect_value[1][1] # 0

\* Strings that end up in calculated_from: str() of a float with one decimal
\* ("42.0"), str() of an int ("7"), and a literal word
StrFloat(r) ==
    LET t == Round(RatMul(r, Int2Rat(10)))
    IN  [lit |-> "", sign |-> IF t < 0 THEN "-" ELSE "", int |-> Abs(t) \div 10,
         frac |-> <<Abs(t) % 10>>]
StrInt(i) ==
    [lit |-> "", sign |-> IF i < 0 THEN "-" ELSE "", int |-> Abs(i), frac |-> <<>>]
Lit(word) == [lit |-> word, sign |-> "", int |-> 0, frac |-> <<>>]

RECURSIVE Flatten(_)
Flatten(seqs) == IF seqs = <<>> THEN <<>> ELSE Head(seqs) \o Flatten(Tail(seqs))

\* ------------------------------------------------------------------------
\* Inputs: CSV rows, reference data
\* ------------------------------------------------------------------------

\* a row of papers.csv as import_papers_from_csv reads it; doi "" is an
\* empty DOI cell
CsvRow(doi, level, issue, text, age_group) ==
    [doi |-> doi, evidence_level |-> level, issue |-> issue,
     risk_description |-> text, age_group |-> age_group]

\* The rows a CSV file is drawn from.  Between them they carry: a percentage
\* with an increase keyword, a multiplier below 1 for children only, a
\* percentage with a decrease keyword, a text with neither pattern nor
\* keyword for an issue name that dental_issues does not hold and without
\* DOI, and a zero percentage with an increase keyword.
CsvRows ==
    { CsvRow("d1", "1a", "sosei",
             <<W("caries"), W("risk"), Num(420), W("%"), W("josho")>>,
             "zen_nenrei"),
      CsvRow("d2", "2b", "kaiko", <<W("risk"), Num(5), W("bai")>>, "shoni"),
      CsvRow("d3", "1b", "kaiko",
             <<W("periodontal"), Num(300), W("%"), W("teika")>>, "seijin"),
      CsvRow("", "unknown", "fumei", <<W("kanren")>>, "zen_nenrei"),
      CsvRow("d5", "4", "kaiko", <<W("risk"), Num(0), W("%"), W("zoka")>>,
             "zen_nenrei") }

RECURSIVE SeqsUpTo(_, _)
SeqsUpTo(S, n) ==
    IF n = 0 THEN {<<>>}
    ELSE LET shorter == SeqsUpTo(S, n - 1)
         IN  shorter \cup {Append(q, x) : q \in shorter, x \in S}

\* the rows of dental_issues: issue_id, issue_name_ja, severity_base_score
DentalIssue(id, name, severity) ==
    [issue_id |-> id, issue_name_ja |-> name, severity_base_score |-> severity]

\* the third row carries a name _generate_default_effects has no entry for
DentalIssueTables ==
    { <<DentalIssue(1, "sosei", 100), DentalIssue(2, "kaiko", 60),
        DentalIssue(3, "sonota_no_shiretsu_mondai", 48)>> }

\* ------------------------------------------------------------------------
\* Import
\* ------------------------------------------------------------------------

\* _insert_paper: the paper table afterwards and the paper_id returned
insert_paper(papers, paper_data) ==
    LET same == {i \in 1..Len(papers) : papers[i].doi = paper_data.doi}
    IN  IF paper_data.doi # "" /\ same # {}
        THEN [papers |-> papers,
              paper_id |-> papers[CHOOSE i \in same : \A j \in same : i <= j].paper_id]
        ELSE [papers |-> Append(papers,
                            [paper_id |-> Len(papers) + 1,
                             doi |-> paper_data.doi,
                             evidence_level |-> paper_data.evidence_level]),
              paper_id |-> Len(papers) + 1]

\* _get_issue_id_by_name: <<>> for None, else <<issue_id>>
get_issue_id_by_name(issue_name_ja) ==
    LET hit == {i \in 1..Len(dental_issues) :
                   dental_issues[i].issue_name_ja = issue_name_ja}
    IN  IF hit = {} THEN <<>>
        ELSE <<dental_issues[CHOOSE i \in hit : \A j \in hit : i <= j].issue_id>>

\* _extract_and_insert_finding: the row it inserts
extract_finding(paper_id, issue_id, row) ==
    LET parsed == parse_risk_description(row.risk_description)
        ages == parse_age_group(row.age_group)
    IN  [paper_id |-> paper_id, issue_id |-> issue_id, finding_type |-> "risk",
         description_ja |-> row.risk_description,
         effect_value |-> parsed[1], effect_direction |-> parsed[2],
         applies_to_age_min |-> ages[1], applies_to_age_max |-> ages[2]]

\* the loop of import_papers_from_csv over the rows of the file
RECURSIVE import_rows(_, _, _)
import_rows(csv, papers, findings) ==
    IF csv = <<>> THEN [papers |-> papers, findings |-> findings]
    ELSE LET ins == insert_paper(papers, Head(csv))
             issue_id == get_issue_id_by_name(Head(csv).issue)
         IN  import_rows(Tail(csv), ins.papers,
                         Append(findings,
                                extract_finding(ins.paper_id, issue_id, Head(csv))))

\* ------------------------------------------------------------------------
\* Evidence weighting
\* ------------------------------------------------------------------------

get_evidence_level_weight(evidence_level) ==
    CASE evidence_level = "1a" -> Rat(5, 1)
      [] evidence_level = "1b" -> Rat(4, 1)
      [] evidence_level = "2a" -> Rat(3, 1)
      [] evidence_level = "2b" -> Rat(2, 1)
      [] evidence_level = "3" -> Rat(3, 2)
      [] evidence_level = "4" -> Rat(1, 1)
      [] evidence_level = "5" -> Rat(1, 2)
      [] OTHER -> Rat(1, 2)

\* variant: the mean weight without the cap
aggregate_confidence_unclamped(total_weight, count) ==
    RatDiv(total_weight, Int2Rat(count))

\* min(total_weight / len(findings), 0.95)
aggregate_confidence(total_weight, count) ==
    RatMin(RatDiv(total_weight, Int2Rat(count)), Rat(95, 100))

\* JOIN research_papers rp ON rf.paper_id = rp.paper_id: the evidence_level
\* of the paper a finding belongs to
evidence_level_of(finding) ==
    research_papers[CHOOSE i \in 1..Len(research_papers) :
                       research_papers[i].paper_id = finding.paper_id].evidence_level

\* JOIN dental_issues di ON rf.issue_id = di.issue_id keeps a finding
joins_dental_issue(finding) ==
    /\ finding.issue_id # <<>>
    /\ \E i \in 1..Len(dental_issues) :
          dental_issues[i].issue_id = finding.issue_id[1]

\* ------------------------------------------------------------------------
\* generate_age_risk_profiles: the rows it inserts
\* ------------------------------------------------------------------------

age_thresholds == <<12, 18, 25, 40, 60>>

\* the SELECT for one threshold
risk_findings(threshold) ==
    SelectSeq(research_findings,
              LAMBDA f : /\ joins_dental_issue(f)
                         /\ f.finding_type = "risk"
                         /\ f.effect_direction = "increase"
                         /\ f.applies_to_age_max >= threshold)

\* the body of the loop over the findings of one threshold
risk_add(acc, effect_value, weight) ==
    IF Truthy(effect_value)
    THEN [total_weight |-> RatAdd(acc.total_weight, weight),
          weighted_risk |-> RatAdd(acc.weighted_risk, RatMul(effect_value[1], weight)),
          paper_ids |-> Append(acc.paper_ids, StrFloat(effect_value[1]))]
    ELSE acc

\* the loop over the findings of one threshold
RECURSIVE risk_accumulate(_, _)
risk_accumulate(findings, acc) ==
    IF findings = <<>> THEN acc
    ELSE LET finding == Head(findings)
             weight == get_evidence_level_weight(evidence_level_of(finding))
         IN  risk_accumulate(Tail(findings),
                             risk_add(acc, finding.effect_value, weight))

\* the loop and the average over a bucket given as rows (effect_value,
\* evidence_level) of the SELECT: <<>> when total_weight stays 0
RECURSIVE bucket_accumulate(_, _)
bucket_accumulate(bucket, acc) ==
    IF bucket = <<>> THEN acc
    ELSE bucket_accumulate(
             Tail(bucket),
             risk_add(acc, Head(bucket).effect_value,
                      get_evidence_level_weight(Head(bucket).evidence_level)))

avg_risk(bucket) ==
    LET acc == bucket_accumulate(bucket,
                   [total_weight |-> Int2Rat(0), weighted_risk |-> Int2Rat(0),
                    paper_ids |-> <<>>])
    IN  IF RatLt(Int2Rat(0), acc.total_weight)
        THEN <<RatDiv(acc.weighted_risk, acc.total_weight)>>
        ELSE <<>>

\* the clauses of the narrative of a computed row
risk_description_clauses(threshold) ==
    <<"tooth_loss">>
    \o (IF threshold >= 18 THEN <<"periodontal">> ELSE <<>>)
    \o (IF threshold >= 25 THEN <<"tmj">> ELSE <<>>)
    \o (IF threshold >= 40 THEN <<"mastication">> ELSE <<>>)
    \o (IF threshold >= 60 THEN <<"speech">> ELSE <<>>)

\* the profiles appended for one threshold: none, the computed one, or the default
risk_profiles_for(threshold) ==
    LET findings == risk_findings(threshold)
        acc == risk_accumulate(findings,
                   [total_weight |-> Int2Rat(0), weighted_risk |-> Int2Rat(0),
                    paper_ids |-> <<>>])
    IN  IF findings = <<>> THEN <<>>
        ELSE IF RatLt(Int2Rat(0), acc.total_weight)
        THEN << [age_threshold |-> threshold,
                 risk_type |-> "tooth_loss",
                 risk_value |-> RatDiv(acc.weighted_risk, acc.total_weight),
                 description_ja |-> risk_description_clauses(threshold),
                 calculated_from |-> acc.paper_ids,
                 confidence_level |->
                     aggregate_confidence(acc.total_weight, Len(findings))] >>
        ELSE << [age_threshold |-> threshold,
                 risk_type |-> "tooth_loss",
                 risk_value |-> Rat(threshold, 2),
                 description_ja |->
                     <<"tooth_loss">>
                     \o (IF threshold >= 18 THEN <<"periodontal">> ELSE <<>>),
                 calculated_from |-> <<Lit("default")>>,
                 confidence_level |-> Rat(5, 10)] >>

age_risk_profile_rows ==
    Flatten([i \in 1..Len(age_thresholds) |-> risk_profiles_for(age_thresholds[i])])

\* ------------------------------------------------------------------------
\* generate_issue_treatment_effects: the rows it inserts
\* ------------------------------------------------------------------------

\* category_keywords in declaration order; the Japanese keywords in romaji
\* (the two spellings of mushiba are one keyword here)
category_keywords ==
    << <<"caries_risk", {"ushoku", "mushiba", "caries"}>>,
       <<"periodontal_risk", {"shishubyo", "shishuen", "periodontal"}>>,
       <<"tmj_risk", {"gakukansetsusho", "TMJ", "temporomandibular"}>>,
       <<"mastication", {"soshaku", "kogo", "chewing", "mastication"}>>,
       <<"aesthetic", {"shinbi", "mitame", "aesthetic", "appearance"}>>,
       <<"pronunciation", {"hatsuon", "koon", "speech", "pronunciation"}>>,
       <<"trauma_risk", {"gaisho", "trauma"}>> >>

\* the category of one description: the first whose keyword occurs, else other
category_of(description) ==
    LET hits == {i \in 1..Len(category_keywords) :
                    \E w \in category_keywords[i][2] : HasWord(description, w)}
    IN  IF hits = {} THEN "other"
        ELSE category_keywords[CHOOSE i \in hits : \A j \in hits : i <= j][1]

\* the keys of the dict _categorize_findings returns, in insertion order
RECURSIVE categories_in_order(_, _)
categories_in_order(findings, seen) ==
    IF findings = <<>> THEN seen
    ELSE LET c == category_of(Head(findings).description_ja)
         IN  categories_in_order(
                 Tail(findings),
                 IF \E i \in 1..Len(seen) : seen[i] = c THEN seen
                 ELSE Append(seen, c))

\* the loop over the findings of one category
RECURSIVE effect_accumulate(_, _)
effect_accumulate(findings, acc) ==
    IF findings = <<>> THEN acc
    ELSE LET finding == Head(findings)
             weight == get_evidence_level_weight(evidence_level_of(finding))
             term == RatMul(finding.effect_value[1], weight)
         IN  effect_accumulate(
                 Tail(findings),
                 IF Truthy(finding.effect_value)
                 THEN [weighted_effect |->
                           IF finding.effect_direction = "decrease"
                           THEN RatAdd(acc.weighted_effect, term)
                           ELSE IF finding.effect_direction = "increase"
                           THEN RatSub(acc.weighted_effect, term)
                           ELSE acc.weighted_effect,
                       total_weight |-> RatAdd(acc.total_weight, weight),
                       paper_ids |-> Append(acc.paper_ids, StrInt(finding.paper_id)),
                       decrease |-> acc.decrease
                           + (IF finding.effect_direction = "decrease" THEN 1 ELSE 0),
                       increase |-> acc.increase
                           + (IF finding.effect_direction = "increase" THEN 1 ELSE 0)]
                 ELSE acc)

\* the effect appended for one category of one issue, if any
category_effect(issue_id, category, category_findings) ==
    LET acc == effect_accumulate(category_findings,
                   [weighted_effect |-> Int2Rat(0), total_weight |-> Int2Rat(0),
                    paper_ids |-> <<>>, decrease |-> 0, increase |-> 0])
    IN  IF RatLt(Int2Rat(0), acc.total_weight)
        THEN << [issue_id |-> issue_id,
                 effect_category |-> category,
                 effect_value |->
                     RatAbs(RatDiv(acc.weighted_effect, acc.total_weight)),
                 effect_direction |->
                     IF acc.decrease > acc.increase THEN "decrease" ELSE "increase",
                 calculated_from |-> acc.paper_ids,
                 confidence_level |->
                     aggregate_confidence(acc.total_weight,
                                          Len(category_findings))] >>
        ELSE <<>>

\* the table of _generate_default_effects; issue names in romaji
default_effects_table(issue_name) ==
    CASE issue_name = "sosei" ->
             << <<"caries_risk", 38, "decrease">>, <<"periodontal_risk", 45, "decrease">> >>
      [] issue_name = "kaiko" ->
             << <<"caries_risk", 58, "decrease">>, <<"pronunciation", 90, "decrease">> >>
      [] issue_name = "kagaikogo" ->
             << <<"trauma_risk", 65, "decrease">>, <<"tmj_risk", 55, "decrease">> >>
      [] issue_name = "kosakogo" ->
             << <<"tmj_risk", 85, "decrease">>, <<"mastication", 40, "decrease">> >>
      [] issue_name = "jogakuzentotsu" ->
             << <<"trauma_risk", 75, "decrease">>, <<"aesthetic", 80, "decrease">> >>
      [] issue_name = "kagakuzentotsu" ->
             << <<"mastication", 70, "decrease">>, <<"pronunciation", 30, "decrease">> >>
      [] OTHER ->
             << <<"caries_risk", 30, "decrease">>, <<"periodontal_risk", 25, "decrease">> >>

generate_default_effects(issue_id, issue_name) ==
    LET effects_data == default_effects_table(issue_name)
    IN  [i \in 1..Len(effects_data) |->
            [issue_id |-> issue_id,
             effect_category |-> effects_data[i][1],
             effect_value |-> Int2Rat(effects_data[i][2]),
             effect_direction |-> effects_data[i][3],
             calculated_from |-> <<Lit("default")>>,
             confidence_level |-> Rat(5, 10)]]

\* variant: the default effects whenever no effect was computed
issue_effects_default_when_none_computed(issue) ==
    LET findings == SelectSeq(research_findings,
                        LAMBDA f : f.issue_id = <<issue.issue_id>>)
        categories == categories_in_order(findings, <<>>)
        computed ==
            Flatten([i \in 1..Len(categories) |->
                category_effect(issue.issue_id, categories[i],
                    SelectSeq(findings,
                        LAMBDA f : category_of(f.description_ja) = categories[i]))])
    IN  IF computed # <<>> THEN computed
        ELSE generate_default_effects(issue.issue_id, issue.issue_name_ja)

\* the effects appended for one issue
issue_effects(issue) ==
    LET findings == SelectSeq(research_findings,
                        LAMBDA f : f.issue_id = <<issue.issue_id>>)
        categories == categories_in_order(findings, <<>>)
    IN  IF findings # <<>>
        THEN Flatten([i \in 1..Len(categories) |->
                 category_effect(issue.issue_id, categories[i],
                     SelectSeq(findings,
                         LAMBDA f : category_of(f.description_ja) = categories[i]))])
        ELSE generate_default_effects(issue.issue_id, issue.issue_name_ja)

issue_treatment_effect_rows ==
    Flatten([i \in 1..Len(dental_issues) |-> issue_effects(dental_issues[i])])

\* ------------------------------------------------------------------------
\* generate_age_timing_benefits, generate_future_scenarios,
\* generate_economic_impacts: the rows they insert
\* ------------------------------------------------------------------------

\* age_groups with the timing_score, current_cost and savings factor of each
age_groups ==
    << [code |-> "pediatric", age_min |-> 7, age_max |-> 12,
        timing_score |-> 100, current_cost |-> 300000, factor |-> Rat(50, 10)],
       [code |-> "adolescent", age_min |-> 13, age_max |-> 18,
        timing_score |-> 80, current_cost |-> 350000, factor |-> Rat(35, 10)],
       [code |-> "young_adult", age_min |-> 19, age_max |-> 35,
        timing_score |-> 60, current_cost |-> 400000, factor |-> Rat(225, 100)],
       [code |-> "adult", age_min |-> 36, age_max |-> 60,
        timing_score |-> 40, current_cost |-> 450000, factor |-> Rat(13, 10)],
       [code |-> "elderly", age_min |-> 61, age_max |-> 100,
        timing_score |-> 20, current_cost |-> 500000, factor |-> Rat(6, 10)] >>

\* SELECT COUNT(*) of the findings whose age range overlaps the group
evidence_count(age_min, age_max) ==
    Len(SelectSeq(research_findings,
                  LAMBDA f : /\ f.applies_to_age_min <= age_max
                             /\ f.applies_to_age_max >= age_min))

timing_confidence(count) ==
    IF count > 0
    THEN RatMin(RatAdd(Rat(5, 10), Rat(count, 20)), Rat(95, 100))
    ELSE Rat(7, 10)

age_timing_benefit_rows ==
    [i \in 1..Len(age_groups) |->
        [age_group_code |-> age_groups[i].code,
         age_min |-> age_groups[i].age_min,
         age_max |-> age_groups[i].age_max,
         timing_score |-> age_groups[i].timing_score,
         calculated_from |-> <<Lit("combined_evidence")>>,
         confidence_level |->
             timing_confidence(evidence_count(age_groups[i].age_min,
                                              age_groups[i].age_max))]]

timeframes == <<5, 10, 20>>
scenario_age_groups == << <<7, 18>>, <<19, 40>>, <<41, 100>> >>

\* variant: the same confidence for every timeframe
scenario_confidence_constant(years) == Rat(7, 10)

\* 0.8 - (years / 50)
scenario_confidence(years) == RatSub(Rat(8, 10), Rat(years, 50))

future_scenario_rows ==
    Flatten([t \in 1..Len(timeframes) |->
        [a \in 1..Len(scenario_age_groups) |->
            [timeframe_years |-> timeframes[t],
             applies_to_age_min |-> scenario_age_groups[a][1],
             applies_to_age_max |-> scenario_age_groups[a][2],
             calculated_from |-> <<Lit("evidence_synthesis")>>,
             confidence_level |-> scenario_confidence(timeframes[t])]]])

\* int(): truncation toward zero
TruncInt(a) == IF a[1] >= 0 THEN a[1] \div a[2] ELSE -((-a[1]) \div a[2])

economic_impact_rows ==
    [i \in 1..Len(age_groups) |->
        LET current_cost == age_groups[i].current_cost
            future_savings == RatMul(Int2Rat(current_cost), age_groups[i].factor)
        IN  [age_group_code |-> age_groups[i].code,
             age_min |-> age_groups[i].age_min,
             age_max |-> age_groups[i].age_max,
             current_cost |-> current_cost,
             future_savings |-> TruncInt(future_savings),
             roi |-> RatMul(RatDiv(RatSub(future_savings, Int2Rat(current_cost)),
                                   Int2Rat(current_cost)),
                            Int2Rat(100)),
             calculation_basis |-> <<Lit("iryohi_sakugen_suikei")>>,
             confidence_level |-> Rat(7, 10)]]

\* ------------------------------------------------------------------------
\* The store: derived tables, transactions
\* ------------------------------------------------------------------------

\* the derived tables in the order generate_all_evidence_data fills them
derived_tables ==
    <<"age_risk_profiles", "issue_treatment_effects", "age_timing_benefits",
      "future_scenarios", "economic_impacts">>

TableNames == {derived_tables[i] : i \in 1..Len(derived_tables)}

EmptyTables == [t \in TableNames |-> <<>>]

\* the rows the generate_* of a table computes from the base tables
generated_rows(table) ==
    CASE table = "age_risk_profiles" -> age_risk_profile_rows
      [] table = "issue_treatment_effects" -> issue_treatment_effect_rows
      [] table = "age_timing_benefits" -> age_timing_benefit_rows
      [] table = "future_scenarios" -> future_scenario_rows
      [] table = "economic_impacts" -> economic_impact_rows

\* variant: a generate_* that does not clear its table
delete_from_nothing(view, table) == view

\* cursor.execute("DELETE FROM <table>") on the connection's view
delete_from(view, table) == [view EXCEPT ![table] = <<>>]

\* the INSERT loop on the connection's view
insert_rows(view, table, rows) == [view EXCEPT ![table] = @ \o rows]

\* conn.commit() and conn.rollback(): the committed tables and the
\* connection's view afterwards
commit(store, view) == [committed |-> view, conn |-> view]
rollback(store, view) == [committed |-> store, conn |-> store]

Idle == [op |-> "idle", table |-> "", repeat |-> FALSE]
NoScore == [called |-> FALSE]
NoProbe == [fn |-> "none"]

Finished(op, table, status, repeat) ==
    [op |-> op, table |-> table, status |-> status, repeat |-> repeat]

\* ------------------------------------------------------------------------
\* Initial state: a new database after initialize_db
\* ------------------------------------------------------------------------

Init ==
    /\ research_papers = <<>>
    /\ research_findings = <<>>
    /\ dental_issues \in DentalIssueTables
    /\ committed = EmptyTables
    /\ conn = EmptyTables
    /\ pc = Idle
    /\ pre = EmptyTables
    /\ last = Finished("initialize_db", "", "ok", FALSE)
    /\ runs = 0
    /\ score = NoScore
    /\ probe = NoProbe
    /\ schema = "created"

\* ------------------------------------------------------------------------
\* Operations
\* ------------------------------------------------------------------------

\* import_papers_from_csv on a file of rows, the tables being there
import_papers_from_csv ==
    /\ pc = Idle
    /\ score = NoScore
    /\ probe = NoProbe
    /\ schema = "created"
    /\ \E csv \in SeqsUpTo(CsvRows, MaxRows - Len(research_findings)) :
          /\ csv # <<>>
          /\ LET done == import_rows(csv, research_papers, research_findings)
             IN  /\ research_papers' = done.papers
                 /\ research_findings' = done.findings
    /\ pre' = committed
    /\ last' = Finished("import_papers_from_csv", "", "ok", FALSE)
    /\ UNCHANGED <<dental_issues, committed, conn, pc, runs, score,
                   probe, schema>>

\* a generate call begins: it runs up to and including its first DELETE
begin_generate(op, table, repeat) ==
    /\ pc = Idle
    /\ score = NoScore
    /\ schema = "created"
    /\ runs < MaxRuns
    /\ runs' = runs + 1
    /\ pre' = committed
    /\ conn' = delete_from(conn, table)
    /\ pc' = [op |-> op, table |-> table, repeat |-> repeat]
    /\ last' = Finished(op, "", "running", repeat)
    /\ UNCHANGED <<research_papers, research_findings, dental_issues, committed,
                   score, probe, schema>>

generate_age_risk_profiles ==
    begin_generate("generate", "age_risk_profiles", FALSE)
generate_issue_treatment_effects ==
    begin_generate("generate", "issue_treatment_effects", FALSE)
generate_age_timing_benefits ==
    begin_generate("generate", "age_timing_benefits", FALSE)
generate_future_scenarios ==
    begin_generate("generate", "future_scenarios", FALSE)
generate_economic_impacts ==
    begin_generate("generate", "economic_impacts", FALSE)

\* generate_all_evidence_data begins with generate_age_risk_profiles; repeat
\* records that the call directly follows a successful one
generate_all_evidence_data ==
    begin_generate("generate_all", derived_tables[1],
                   last.op = "generate_all" /\ last.status = "ok")

TableIndex(table) == CHOOSE i \in 1..Len(derived_tables) : derived_tables[i] = table

\* the running generate_* queries, inserts its rows and commits
insert_and_commit ==
    commit(committed, insert_rows(conn, pc.table, generated_rows(pc.table)))

\* the running generate_* returns to its caller, which is done
generate_returns ==
    /\ pc.op # "idle"
    /\ pc.op = "generate_all" => pc.table = derived_tables[Len(derived_tables)]
    /\ LET done == insert_and_commit
           final == IF pc.op = "generate_all" THEN commit(done.committed, done.conn)
                    ELSE done
       IN  /\ committed' = final.committed
           /\ conn' = final.conn
    /\ pc' = Idle
    /\ last' = Finished(pc.op, pc.table, "ok", pc.repeat)
    /\ UNCHANGED <<research_papers, research_findings, dental_issues, pre, runs, score,
                   probe, schema>>

\* inside generate_all_evidence_data the running generate_* returns and the
\* next one runs up to its DELETE
generate_all_next ==
    /\ pc.op = "generate_all"
    /\ pc.table # derived_tables[Len(derived_tables)]
    /\ LET done == insert_and_commit
           next == derived_tables[TableIndex(pc.table) + 1]
       IN  /\ committed' = done.committed
           /\ conn' = delete_from(done.conn, next)
           /\ pc' = [pc EXCEPT !.table = next]
    /\ UNCHANGED <<research_papers, research_findings, dental_issues, pre, last,
                   runs, score,
                   probe, schema>>

\* variant: an except block that commits what the call wrote
on_error_commits(store, view) == commit(store, view)

\* the except block of a generate_*: rollback, then raise
on_error(store, view) == rollback(store, view)

\* the store raises in the running generate_* after `inserted` of its rows
\* were inserted (0: during the queries); the exception passes through the
\* except block of generate_*, and of generate_all_evidence_data when that
\* is the caller
generate_raises ==
    /\ pc.op # "idle"
    /\ \E inserted \in 0..Len(generated_rows(pc.table)) :
          LET view == insert_rows(conn, pc.table,
                          SubSeq(generated_rows(pc.table), 1, inserted))
              inner == on_error(committed, view)
              outer == IF pc.op = "generate_all"
                       THEN rollback(inner.committed, inner.conn)
                       ELSE inner
          IN  /\ committed' = outer.committed
              /\ conn' = outer.conn
    /\ pc' = Idle
    /\ last' = Finished(pc.op, pc.table, "raised", pc.repeat)
    /\ UNCHANGED <<research_papers, research_findings, dental_issues, pre, runs, score,
                   probe, schema>>

\* ------------------------------------------------------------------------
\* Necessity score
\* ------------------------------------------------------------------------

\* the ages and the selections of issue ids a scoring call is made with;
\* 9 is the id of no dental issue
Ages == {1, 10, 18, 30, 45, 100}
IssueIdSets == {{}, {1}, {1, 2}, {9}}

RECURSIVE SumSeq(_)
SumSeq(q) == IF q = <<>> THEN 0 ELSE Head(q) + SumSeq(Tail(q))

MaxOf(q) == CHOOSE x \in {q[i] : i \in 1..Len(q)} : \A i \in 1..Len(q) : q[i] <= x

calculate_timing_score(age) ==
    LET result == SelectSeq(conn["age_timing_benefits"],
                            LAMBDA r : r.age_min <= age /\ r.age_max >= age)
    IN  IF result # <<>>
        THEN RatMul(RatDiv(Int2Rat(result[1].timing_score), Int2Rat(100)),
                    Int2Rat(35))
        ELSE IF age <= 12 THEN Int2Rat(35)
        ELSE IF age <= 18 THEN Int2Rat(30)
        ELSE IF age <= 25 THEN Int2Rat(25)
        ELSE IF age <= 40 THEN Int2Rat(20)
        ELSE IF age <= 60 THEN Int2Rat(15)
        ELSE Int2Rat(10)

\* variant: only the scores below the primary one count as secondary
calculate_severity_score_below_primary(issue_ids) ==
    LET results == SelectSeq(dental_issues, LAMBDA d : d.issue_id \in issue_ids)
        issue_scores == [i \in 1..Len(results) |-> results[i].severity_base_score]
        primary_issue_score == MaxOf(issue_scores)
        secondary_issues_score ==
            RatMul(Int2Rat(SumSeq(SelectSeq(issue_scores,
                                            LAMBDA x : x < primary_issue_score))),
                   Rat(5, 10))
    IN  IF issue_ids = {} THEN Int2Rat(0)
        ELSE IF results = <<>> THEN Int2Rat(0)
        ELSE IF Len(issue_scores) > 1
        THEN RatMin(Int2Rat(40),
                    RatMul(RatDiv(RatAdd(Int2Rat(primary_issue_score),
                                         secondary_issues_score),
                                  Int2Rat(100)),
                           Int2Rat(40)))
        ELSE RatMul(RatDiv(Int2Rat(primary_issue_score), Int2Rat(100)), Int2Rat(40))

calculate_severity_score(issue_ids) ==
    LET results == SelectSeq(dental_issues, LAMBDA d : d.issue_id \in issue_ids)
        issue_scores == [i \in 1..Len(results) |-> results[i].severity_base_score]
        primary_issue_score == MaxOf(issue_scores)
        \* sum(sorted(issue_scores)[:-1]) * 0.5
        secondary_issues_score ==
            RatMul(Int2Rat(SumSeq(issue_scores) - primary_issue_score), Rat(5, 10))
    IN  IF issue_ids = {} THEN Int2Rat(0)
        ELSE IF results = <<>> THEN Int2Rat(0)
        ELSE IF Len(issue_scores) > 1
        THEN RatMin(Int2Rat(40),
                    RatMul(RatDiv(RatAdd(Int2Rat(primary_issue_score),
                                         secondary_issues_score),
                                  Int2Rat(100)),
                           Int2Rat(40)))
        ELSE RatMul(RatDiv(Int2Rat(primary_issue_score), Int2Rat(100)), Int2Rat(40))

\* variant: an urgency factor without its floor of 0
calculate_risk_score_without_floor(age, issue_ids) ==
    LET rows == SelectSeq(conn["age_risk_profiles"],
                          LAMBDA r : r.age_threshold >= age)
        \* ORDER BY age_threshold LIMIT 1
        first == CHOOSE i \in 1..Len(rows) :
                    \A j \in 1..Len(rows) :
                        \/ rows[i].age_threshold < rows[j].age_threshold
                        \/ (rows[i].age_threshold = rows[j].age_threshold /\ i <= j)
        years_until == rows[first].age_threshold - age
        urgency_factor == RatSub(Int2Rat(1), Rat(years_until, 15))
        problem_factor == RatMin(Rat(15, 10),
                                 RatAdd(Int2Rat(1),
                                        RatMul(Int2Rat(Cardinality(issue_ids) - 1),
                                               Rat(1, 10))))
    IN  IF rows = <<>> THEN Int2Rat(0)
        ELSE RatMul(RatMul(RatMul(urgency_factor,
                                  RatDiv(rows[first].risk_value, Int2Rat(60))),
                           problem_factor),
                    Int2Rat(35))

calculate_risk_score(age, issue_ids) ==
    LET rows == SelectSeq(conn["age_risk_profiles"],
                          LAMBDA r : r.age_threshold >= age)
        \* ORDER BY age_threshold LIMIT 1
        first == CHOOSE i \in 1..Len(rows) :
                    \A j \in 1..Len(rows) :
                        \/ rows[i].age_threshold < rows[j].age_threshold
                        \/ (rows[i].age_threshold = rows[j].age_threshold /\ i <= j)
        years_until == rows[first].age_threshold - age
        urgency_factor == RatMax(Int2Rat(0),
                                 RatSub(Int2Rat(1), Rat(years_until, 15)))
        problem_factor == RatMin(Rat(15, 10),
                                 RatAdd(Int2Rat(1),
                                        RatMul(Int2Rat(Cardinality(issue_ids) - 1),
                                               Rat(1, 10))))
    IN  IF rows = <<>> THEN Int2Rat(0)
        ELSE RatMul(RatMul(RatMul(urgency_factor,
                                  RatDiv(rows[first].risk_value, Int2Rat(60))),
                           problem_factor),
                    Int2Rat(35))

\* (interpretation, urgency); the texts by their tier, the urgency labels
\* in romaji
interpret_necessity_score(total_score) ==
    IF RatLeq(Int2Rat(85), total_score) THEN <<"urgent", "kinkyu">>
    ELSE IF RatLeq(Int2Rat(70), total_score) THEN <<"high", "ko">>
    ELSE IF RatLeq(Int2Rat(50), total_score) THEN <<"moderate", "chu">>
    ELSE IF RatLeq(Int2Rat(30), total_score) THEN <<"low_moderate", "tei">>
    ELSE <<"minimal", "saisho">>

\* variant: the sum of the sub-scores without the two bonuses
unclamped_total_without_bonus(age, issue_ids) ==
    RatAdd(RatAdd(calculate_timing_score(age), calculate_severity_score(issue_ids)),
           calculate_risk_score(age, issue_ids))

\* total_score before max(10, min(100, .))
unclamped_total(age, issue_ids) ==
    LET sum == RatAdd(RatAdd(calculate_timing_score(age),
                             calculate_severity_score(issue_ids)),
                      calculate_risk_score(age, issue_ids))
        with_prevention ==
            IF age <= 18
            THEN RatAdd(sum, RatMul(Int2Rat(IF 18 - age > 0 THEN 18 - age ELSE 0),
                                    Rat(5, 10)))
            ELSE sum
    IN  IF 35 <= age /\ age <= 55 /\ Cardinality(issue_ids) >= 2
        THEN RatAdd(with_prevention, Int2Rat((Cardinality(issue_ids) - 1) * 2))
        ELSE with_prevention

\* variant: the total without the limits
clamp_total_missing(total_score) == total_score

\* max(10, min(100, total_score))
clamp_total(total_score) == RatMax(Int2Rat(10), RatMin(Int2Rat(100), total_score))

\* variant: a call without the early return
no_issue_selected_never(issue_ids) == FALSE

\* `if not issue_ids`
no_issue_selected(issue_ids) == issue_ids = {}

\* the dict calculate_ortho_necessity_score returns, with the number of
\* SELECTs the call executed
necessity_score(age, issue_ids) ==
    IF no_issue_selected(issue_ids)
    THEN [total_score |-> 0, timing_score |-> 0, severity_score |-> 0,
          risk_score |-> 0, interpretation |-> "no_issue_selected",
          urgency |-> "fumei", queries |-> 0]
    ELSE LET total_score == clamp_total(unclamped_total(age, issue_ids))
             tier == interpret_necessity_score(total_score)
         IN  [total_score |-> Round(total_score),
              timing_score |-> Round(calculate_timing_score(age)),
              severity_score |-> Round(calculate_severity_score(issue_ids)),
              risk_score |-> Round(calculate_risk_score(age, issue_ids)),
              interpretation |-> tier[1],
              urgency |-> tier[2], queries |-> 3]

\* variant: an except block that returns the result of an empty selection
error_score_as_empty_selection ==
    [total_score |-> 0, timing_score |-> 0, severity_score |-> 0,
     risk_score |-> 0, interpretation |-> "no_issue_selected",
     urgency |-> "fumei", queries |-> 1]

\* the dict of the except block, returned when a SELECT of the call raises
error_score ==
    [total_score |-> 50, timing_score |-> 20, severity_score |-> 20,
     risk_score |-> 10, interpretation |-> "calculation_error",
     urgency |-> "fumei", queries |-> 1]

\* raised: the store raises in the first SELECT of the call, as it does
\* when the tables are not there
calculate_ortho_necessity_score ==
    /\ pc = Idle
    /\ score = NoScore
    /\ \E age \in Ages, issue_ids \in IssueIdSets, raised \in BOOLEAN :
          /\ no_issue_selected(issue_ids) => ~raised
          /\ (schema = "dropped" /\ ~no_issue_selected(issue_ids)) => raised
          /\ score' = [called |-> TRUE, age |-> age, issue_ids |-> issue_ids,
                       raised |-> raised,
                       result |-> IF raised THEN error_score
                                  ELSE necessity_score(age, issue_ids)]
    /\ pre' = committed
    /\ last' = Finished("calculate_ortho_necessity_score", "", "ok", FALSE)
    /\ UNCHANGED <<research_papers, research_findings, dental_issues, committed,
                   conn, pc, runs, probe, schema>>

\* the caller has shown the result (main in app.py) and drops it; the next
\* call of the processor comes after that
score_displayed ==
    /\ score # NoScore
    /\ score' = NoScore
    /\ UNCHANGED <<research_papers, research_findings, dental_issues, committed,
                   conn, pc, pre, last, runs, probe, schema>>

\* ------------------------------------------------------------------------
\* Whole calls that meet no store failure, each as one step
\* ------------------------------------------------------------------------

\* DELETE, INSERTs and commit of the generate_* of each table in turn
RECURSIVE regenerate(_, _)
regenerate(tables, store) ==
    IF tables = <<>> THEN store
    ELSE regenerate(Tail(tables),
             commit(store.committed,
                    insert_rows(delete_from(store.conn, Head(tables)),
                                Head(tables), generated_rows(Head(tables)))))

complete_generate(op, tables) ==
    /\ pc = Idle
    /\ score = NoScore
    /\ probe = NoProbe
    /\ schema = "created"
    /\ runs < MaxRuns
    /\ runs' = runs + 1
    /\ pre' = committed
    /\ LET done == regenerate(tables, [committed |-> committed, conn |-> conn])
       IN  /\ committed' = done.committed
           /\ conn' = done.conn
    /\ last' = Finished(op, tables[Len(tables)], "ok", FALSE)
    /\ UNCHANGED <<research_papers, research_findings, dental_issues, pc, score,
                   probe, schema>>

complete_generate_age_risk_profiles ==
    complete_generate("generate", <<"age_risk_profiles">>)
complete_generate_age_timing_benefits ==
    complete_generate("generate", <<"age_timing_benefits">>)
complete_generate_all_evidence_data ==
    complete_generate("generate_all", derived_tables)

\* ------------------------------------------------------------------------
\* reset_database
\* ------------------------------------------------------------------------

\* where a reset_database call fails: nowhere, in the DROP script before
\* its first statement, or in initialize_db (the schema file cannot be read,
\* or its script raises in its first statement)
ResetFailures == {"none", "drop", "initialize_db"}

\* reset_database: executescript runs the DROP statements outside any
\* transaction, so the rollback of either except block restores nothing
reset_database ==
    /\ pc = Idle
    /\ score = NoScore
    /\ \E failure \in ResetFailures :
          /\ IF failure = "drop"
             THEN UNCHANGED <<research_papers, research_findings, dental_issues,
                              committed, conn, schema>>
             ELSE /\ research_papers' = <<>>
                  /\ research_findings' = <<>>
                  /\ committed' = EmptyTables
                  /\ conn' = EmptyTables
                  /\ IF failure = "initialize_db"
                     THEN dental_issues' = <<>> /\ schema' = "dropped"
                     ELSE dental_issues' \in DentalIssueTables
                          /\ schema' = "created"
          /\ last' = Finished("reset_database", failure,
                              IF failure = "none" THEN "ok" ELSE "raised", FALSE)
    /\ pre' = committed
    /\ UNCHANGED <<pc, runs, score, probe>>

\* import_papers_from_csv when the tables are not there: every _insert_paper
\* catches the error of its statement and returns None, no row is counted
\* and the call returns 0
import_without_tables ==
    /\ pc = Idle
    /\ score = NoScore
    /\ schema = "dropped"
    /\ pre' = committed
    /\ last' = Finished("import_papers_from_csv", "", "ok", FALSE)
    /\ UNCHANGED <<research_papers, research_findings, dental_issues, committed,
                   conn, pc, runs, score, probe, schema>>

\* a generate call when the tables are not there: its DELETE raises, the
\* except block rolls back and raises
generate_without_tables ==
    /\ pc = Idle
    /\ score = NoScore
    /\ schema = "dropped"
    /\ runs < MaxRuns
    /\ runs' = runs + 1
    /\ pre' = committed
    /\ \E op \in {"generate", "generate_all"} :
          last' = Finished(op, derived_tables[1], "raised", FALSE)
    /\ UNCHANGED <<research_papers, research_findings, dental_issues, committed,
                   conn, pc, score, probe, schema>>

\* imports, whole generate_all_evidence_data calls and resets
ResetNext ==
    \/ import_papers_from_csv
    \/ complete_generate_all_evidence_data
    \/ reset_database
    \/ import_without_tables
    \/ generate_without_tables

ResetSpec == Init /\ [][ResetNext]_vars

Next ==
    \/ import_papers_from_csv
    \/ generate_age_risk_profiles
    \/ generate_issue_treatment_effects
    \/ generate_age_timing_benefits
    \/ generate_future_scenarios
    \/ generate_economic_impacts
    \/ generate_all_evidence_data
    \/ generate_returns
    \/ generate_all_next
    \/ generate_raises

Spec == Init /\ [][Next]_vars

\* ------------------------------------------------------------------------
\* The helpers called on their own
\* ------------------------------------------------------------------------

\* the tokens of the texts: 0.5, 2.5 and 42.0, the two units, an increase
\* keyword, a decrease keyword and a word that is no keyword
Tokens ==
    {Num(5), Num(25), Num(420), W("%"), W("bai"), W("josho"), W("teika"),
     W("risk")}

Texts == SeqsUpTo(Tokens, TextLen)

call_parse_risk_description ==
    /\ probe = NoProbe
    /\ \E text \in Texts :
          probe' = [fn |-> "parse_risk_description", text |-> text,
                    effect_value |-> parse_risk_description(text)[1],
                    effect_direction |-> parse_risk_description(text)[2]]
    /\ UNCHANGED <<research_papers, research_findings, dental_issues, committed,
                   conn, pc, pre, last, runs, score, schema>>

\* the evidence levels a paper row carries: the seven tiers, a value that is
\* no tier and an empty cell
EvidenceLevels == {"1a", "1b", "2a", "2b", "3", "4", "5", "unknown", ""}

call_get_evidence_level_weight ==
    /\ probe = NoProbe
    /\ \E evidence_level \in EvidenceLevels :
          probe' = [fn |-> "get_evidence_level_weight",
                    evidence_level |-> evidence_level,
                    weight |-> get_evidence_level_weight(evidence_level)]
    /\ UNCHANGED <<research_papers, research_findings, dental_issues, committed,
                   conn, pc, pre, last, runs, score, schema>>

\* the values of the Finding whose tier changes, and the other rows of its
\* bucket
FindingValues ==
    {<<Int2Rat(-50)>>, <<Int2Rat(0)>>, <<Int2Rat(30)>>, <<Int2Rat(42)>>,
     <<Int2Rat(150)>>}

OtherFindings ==
    {[effect_value |-> v, evidence_level |-> l] :
        v \in {<<>>, <<Int2Rat(-50)>>, <<Int2Rat(0)>>, <<Int2Rat(42)>>},
        l \in {"1a", "3", "unknown"}}

\* the average of one bucket with a Finding at tier 5, and with the same
\* Finding at tier 1a
call_avg_risk ==
    /\ probe = NoProbe
    /\ \E effect_value \in FindingValues,
          others \in SeqsUpTo(OtherFindings, BucketLen) :
          probe' = [fn |-> "avg_risk", effect_value |-> effect_value,
                    others |-> others,
                    tier_5 |-> avg_risk(<<[effect_value |-> effect_value,
                                           evidence_level |-> "5"]>> \o others),
                    tier_1a |-> avg_risk(<<[effect_value |-> effect_value,
                                            evidence_level |-> "1a"]>> \o others)]
    /\ UNCHANGED <<research_papers, research_findings, dental_issues, committed,
                   conn, pc, pre, last, runs, score, schema>>

\* the caller of the helper takes the result
helper_returns ==
    /\ probe # NoProbe
    /\ probe' = NoProbe
    /\ UNCHANGED <<research_papers, research_findings, dental_issues, committed,
                   conn, pc, pre, last, runs, score, schema>>

HelperNext ==
    \/ call_parse_risk_description
    \/ call_get_evidence_level_weight
    \/ call_avg_risk
    \/ helper_returns

HelperSpec == Init /\ [][HelperNext]_vars

\* ------------------------------------------------------------------------
\* The lookups of the scorer and of the page, called on their own
\* ------------------------------------------------------------------------

\* the age the page accepts: number_input(min_value=1, max_value=100)
MinAge == 1
MaxAge == 100

\* the ages the lookups are called with: the two ends of the input domain,
\* the two ends of every age group and ages 14 and 15 or more years below
\* a threshold
LookupAges == {1, 6, 7, 12, 13, 18, 19, 26, 35, 36, 41, 45, 60, 61, 100}

\* the selections the lookups are called with; 4 to 7 are ids of no dental
\* issue
LookupIssueIdSets == {{1}, {1, 2}, {2, 3}, {1, 2, 3}, 1..7}

\* reference data for the lookups: the table of Init, and one where two
\* issues share the highest severity
LookupIssueTables ==
    DentalIssueTables \cup
    { <<DentalIssue(1, "sosei", 60), DentalIssue(2, "kaiko", 60),
        DentalIssue(3, "sonota_no_shiretsu_mondai", 48)>> }

\* the dict of the fallback branch of get_economic_impact
economic_impact_defaults ==
    [current_cost |-> 400000, future_savings |-> 900000, net_benefit |-> 500000,
     roi |-> Rat(125, 1), monthly_benefit |-> 2500]

\* get_economic_impact: the dict of the first row whose age group holds
\* the age, else the defaults
get_economic_impact(age) ==
    LET df == SelectSeq(conn["economic_impacts"],
                        LAMBDA r : r.age_min <= age /\ r.age_max >= age)
    IN  IF df # <<>>
        THEN [current_cost |-> df[1].current_cost,
              future_savings |-> df[1].future_savings,
              net_benefit |-> df[1].future_savings - df[1].current_cost,
              roi |-> df[1].roi,
              monthly_benefit |->
                  TruncInt(RatDiv(Int2Rat(df[1].future_savings), Int2Rat(30 * 12)))]
        ELSE economic_impact_defaults

call_calculate_timing_score ==
    /\ probe = NoProbe
    /\ \E age \in LookupAges :
          probe' = [fn |-> "calculate_timing_score", age |-> age,
                    result |-> calculate_timing_score(age)]
    /\ UNCHANGED <<research_papers, research_findings, dental_issues, committed,
                   conn, pc, pre, last, runs, score, schema>>

call_get_economic_impact ==
    /\ probe = NoProbe
    /\ \E age \in LookupAges :
          probe' = [fn |-> "get_economic_impact", age |-> age,
                    result |-> get_economic_impact(age)]
    /\ UNCHANGED <<research_papers, research_findings, dental_issues, committed,
                   conn, pc, pre, last, runs, score, schema>>

call_calculate_severity_score ==
    /\ probe = NoProbe
    /\ \E issue_ids \in LookupIssueIdSets :
          probe' = [fn |-> "calculate_severity_score", issue_ids |-> issue_ids,
                    result |-> calculate_severity_score(issue_ids)]
    /\ UNCHANGED <<research_papers, research_findings, dental_issues, committed,
                   conn, pc, pre, last, runs, score, schema>>

call_calculate_risk_score ==
    /\ probe = NoProbe
    /\ \E age \in LookupAges, issue_ids \in LookupIssueIdSets :
          probe' = [fn |-> "calculate_risk_score", age |-> age,
                    issue_ids |-> issue_ids,
                    result |-> calculate_risk_score(age, issue_ids)]
    /\ UNCHANGED <<research_papers, research_findings, dental_issues, committed,
                   conn, pc, pre, last, runs, score, schema>>

LookupInit ==
    /\ research_papers = <<>>
    /\ research_findings = <<>>
    /\ dental_issues \in LookupIssueTables
    /\ committed = EmptyTables
    /\ conn = EmptyTables
    /\ pc = Idle
    /\ pre = EmptyTables
    /\ last = Finished("initialize_db", "", "ok", FALSE)
    /\ runs = 0
    /\ score = NoScore
    /\ probe = NoProbe
    /\ schema = "created"

LookupNext ==
    \/ import_papers_from_csv
    \/ complete_generate_all_evidence_data
    \/ call_calculate_timing_score
    \/ call_get_economic_impact
    \/ call_calculate_severity_score
    \/ call_calculate_risk_score
    \/ helper_returns

LookupSpec == LookupInit /\ [][LookupNext]_vars

\* The scoring calls between imports and generate calls that meet no store
\* failure.  A generate_all_evidence_data that fails leaves the tables as
\* generate_* calls of its earlier steps leave them.
ScoreNext ==
    \/ import_papers_from_csv
    \/ complete_generate_age_risk_profiles
    \/ complete_generate_age_timing_benefits
    \/ complete_generate_all_evidence_data
    \/ calculate_ortho_necessity_score
    \/ score_displayed

ScoreSpec == Init /\ [][ScoreNext]_vars

\* ------------------------------------------------------------------------
\* Properties
\* ------------------------------------------------------------------------

Rows(table) == {committed[table][i] : i \in 1..Len(committed[table])}
WrittenRows(table) == {conn[table][i] : i \in 1..Len(conn[table])}

ProfilesOf(threshold) ==
    SelectSeq(committed["age_risk_profiles"],
              LAMBDA r : r.age_threshold = threshold)

IsDefaultProfile(row, threshold) ==
    /\ row.risk_value = Rat(threshold, 2)
    /\ row.confidence_level = Rat(5, 10)
    /\ row.calculated_from = <<Lit("default")>>

RiskProfilesGenerated ==
    /\ last.op = "generate"
    /\ last.table = "age_risk_profiles"
    /\ last.status = "ok"

\* C1: after generate_age_risk_profiles has completed successfully,
\* age_risk_profiles holds exactly one row for every threshold, and the row
\* of a threshold for which no increase-direction risk finding qualifies is
\* the default row (risk_value threshold/2, confidence 0.5, provenance
\* 'default').
C1_OneProfilePerThreshold ==
    RiskProfilesGenerated =>
        \A i \in 1..Len(age_thresholds) :
            LET threshold == age_thresholds[i]
            IN  /\ Len(ProfilesOf(threshold)) = 1
                /\ risk_findings(threshold) = <<>> =>
                       IsDefaultProfile(ProfilesOf(threshold)[1], threshold)

\* C2: when generate_all_evidence_data raises, all five derived tables hold
\* exactly the committed contents they had before the call.
C2_GenerateAllIsAllOrNothing ==
    (last.op = "generate_all" /\ last.status = "raised") => committed = pre

\* C3: when a generate_* raises after its DELETE, during its queries or any
\* of its INSERTs, its table holds exactly the committed contents it had
\* before the call, in the store and as the connection sees it.
C3_FailedGenerateRestoresItsTable ==
    last.status = "raised" =>
        /\ committed[last.table] = pre[last.table]
        /\ conn[last.table] = pre[last.table]

\* a generate_* raised on a table that held committed rows before the call
C3_Witness ==
    /\ last.op = "generate"
    /\ last.status = "raised"
    /\ pre[last.table] # <<>>
    /\ generated_rows(last.table) # <<>>

C5_RiskValueWithin0And100 ==
    \A row \in WrittenRows("age_risk_profiles") :
        /\ RatLeq(Int2Rat(0), row.risk_value)
        /\ RatLeq(row.risk_value, Int2Rat(100))

\* C6: every row written to any of the five derived tables has
\* confidence_level in [0, 0.95].
C6_ConfidenceWithin0And095 ==
    \A t \in TableNames :
        \A row \in WrittenRows(t) \cup Rows(t) :
            /\ RatLeq(Int2Rat(0), row.confidence_level)
            /\ RatLeq(row.confidence_level, Rat(95, 100))

\* a computed risk profile whose confidence is the cap 0.95
C6_Witness ==
    \E row \in Rows("age_risk_profiles") :
        /\ row.calculated_from # <<Lit("default")>>
        /\ row.confidence_level = Rat(95, 100)

\* the provenance column of a row: economic_impacts has calculation_basis
ProvenanceOf(table, row) ==
    IF table = "economic_impacts" THEN row.calculation_basis
    ELSE row.calculated_from

PaperIdStrings == {StrInt(research_papers[i].paper_id) : i \in 1..Len(research_papers)}

\* C7: the provenance of every row of every derived table is the literal
\* 'default' or a list of identifiers of research papers.
C7_ProvenanceIsDefaultOrPaperIds ==
    \A t \in TableNames :
        \A row \in Rows(t) :
            \/ ProvenanceOf(t, row) = <<Lit("default")>>
            \/ \A i \in 1..Len(ProvenanceOf(t, row)) :
                  ProvenanceOf(t, row)[i] \in PaperIdStrings

\* C8: every effect value extracted into a finding is absent or >= 0, and
\* every risk_value and effect_value of a derived table is >= 0.
C8_EffectValuesNonNegative ==
    /\ \A i \in 1..Len(research_findings) :
          \/ research_findings[i].effect_value = <<>>
          \/ RatLeq(Int2Rat(0), research_findings[i].effect_value[1])
    /\ \A row \in Rows("age_risk_profiles") : RatLeq(Int2Rat(0), row.risk_value)
    /\ \A row \in Rows("issue_treatment_effects") :
          RatLeq(Int2Rat(0), row.effect_value)

\* C9: for a non-empty selection of issue ids the call returns a total_score
\* in [10, 100].
C9_TotalScoreWithin10And100 ==
    (score # NoScore /\ score.issue_ids # {}) =>
        /\ 10 <= score.result.total_score
        /\ score.result.total_score <= 100

\* a call that met no failure and whose sum of sub-scores and bonus lay
\* above 100
C9_Witness ==
    /\ score # NoScore
    /\ score.issue_ids # {}
    /\ score.result.queries = 3
    /\ RatLt(Int2Rat(100), unclamped_total(score.age, score.issue_ids))
    /\ score.result.total_score = 100

\* C10: with an empty selection the call returns total_score 0, the three
\* sub-scores 0 and the 'no issue selected' interpretation, having executed
\* no query, whatever the store holds.
C10_EmptySelectionScoresZero ==
    (score # NoScore /\ score.issue_ids = {}) =>
        /\ score.result.total_score = 0
        /\ score.result.timing_score = 0
        /\ score.result.severity_score = 0
        /\ score.result.risk_score = 0
        /\ score.result.interpretation = "no_issue_selected"
        /\ score.result.queries = 0

\* an empty selection scored over generated tables
C10_Witness ==
    /\ score # NoScore
    /\ score.issue_ids = {}
    /\ committed["age_timing_benefits"] # <<>>
    /\ committed["age_risk_profiles"] # <<>>

\* a scoring call that returned from the try block for a non-empty selection
Scored ==
    /\ score # NoScore
    /\ score.issue_ids # {}
    /\ ~score.raised

\* C11: when a SELECT of a scoring call raises, the call returns the fixed
\* fallback result: total_score 50, timing 20, severity 20, risk 10 and the
\* generic error message.
C11_ScoringFailureReturnsFallback ==
    (score # NoScore /\ score.raised) =>
        /\ score.result.total_score = 50
        /\ score.result.timing_score = 20
        /\ score.result.severity_score = 20
        /\ score.result.risk_score = 10
        /\ score.result.interpretation = "calculation_error"

\* a scoring call failed over generated tables
C11_Witness ==
    /\ score # NoScore
    /\ score.raised
    /\ committed["age_timing_benefits"] # <<>>
    /\ committed["age_risk_profiles"] # <<>>

\* C12: for a non-empty selection the timing sub-score lies in [0, 35], the
\* severity sub-score in [0, 40] and the risk sub-score in [0, 35].
C12_SubScoresWithinRanges ==
    Scored =>
        /\ RatLeq(Int2Rat(0), calculate_timing_score(score.age))
        /\ RatLeq(calculate_timing_score(score.age), Int2Rat(35))
        /\ RatLeq(Int2Rat(0), calculate_severity_score(score.issue_ids))
        /\ RatLeq(calculate_severity_score(score.issue_ids), Int2Rat(40))
        /\ RatLeq(Int2Rat(0), calculate_risk_score(score.age, score.issue_ids))
        /\ RatLeq(calculate_risk_score(score.age, score.issue_ids), Int2Rat(35))

PreventionBonus(age) == IF age <= 18 THEN Rat(18 - age, 2) ELSE Int2Rat(0)

AdultComplexityBonus(age, n) ==
    IF 35 <= age /\ age <= 55 /\ n >= 2 THEN Int2Rat(2 * (n - 1)) ELSE Int2Rat(0)

Clamped(total) ==
    IF RatLt(total, Int2Rat(10)) THEN Int2Rat(10)
    ELSE IF RatLt(Int2Rat(100), total) THEN Int2Rat(100)
    ELSE total

\* C13: for a non-empty selection of n issues and no failure, the returned
\* total is the sum of the three sub-scores plus the prevention bonus
\* 0.5 * (18 - age) when age <= 18, plus the adult-complexity bonus
\* 2 * (n - 1) when 35 <= age <= 55 and n >= 2, clamped to [10, 100] (and
\* rounded); at most one bonus is non-zero, and at age 10 the prevention
\* bonus is 4.
C13_TotalIsClampedSumWithBonuses ==
    Scored =>
        LET n == Cardinality(score.issue_ids)
            sum == RatAdd(RatAdd(calculate_timing_score(score.age),
                                 calculate_severity_score(score.issue_ids)),
                          calculate_risk_score(score.age, score.issue_ids))
            prevention == PreventionBonus(score.age)
            complexity == AdultComplexityBonus(score.age, n)
        IN  /\ score.result.total_score =
                   Round(Clamped(RatAdd(RatAdd(sum, prevention), complexity)))
            /\ prevention = Int2Rat(0) \/ complexity = Int2Rat(0)
            /\ score.age = 10 => prevention = Int2Rat(4)

\* a call for age 10 whose total lies strictly between the limits
C13_Witness ==
    /\ Scored
    /\ score.age = 10
    /\ RatLt(Int2Rat(10), unclamped_total(score.age, score.issue_ids))
    /\ RatLt(unclamped_total(score.age, score.issue_ids), Int2Rat(100))

TierOf(total_score) ==
    IF total_score >= 85 THEN <<"urgent", "kinkyu">>
    ELSE IF total_score >= 70 THEN <<"high", "ko">>
    ELSE IF total_score >= 50 THEN <<"moderate", "chu">>
    ELSE IF total_score >= 30 THEN <<"low_moderate", "tei">>
    ELSE <<"minimal", "saisho">>

\* C14: in a result returned from the try block for a non-empty selection,
\* interpretation and urgency are those of the tier of the returned
\* total_score: urgent from 85, high from 70, moderate from 50, low-moderate
\* from 30, else minimal.
C14_InterpretationMatchesReturnedTotal ==
    Scored =>
        /\ score.result.interpretation = TierOf(score.result.total_score)[1]
        /\ score.result.urgency = TierOf(score.result.total_score)[2]

\* the numbers, in tenths, directly followed by the unit in a text
NumbersBefore(text, unit) ==
    {text[i].n : i \in {j \in 1..(Len(text) - 1) :
                            text[j].k = "num" /\ text[j + 1].k = unit}}

\* C15: the value _parse_risk_description returns is the number of a
\* percentage pattern when the text has one, else number * 100 - 100 for a
\* multiplier pattern, else absent; the direction is increase when an
\* increase term (the multiplier sign included) occurs, else decrease when
\* a decrease term occurs, else neutral, whatever the value is.  "42%
\* increase" gives (42.0, increase), "risk 2.5 times" gives (150.0,
\* increase), and a text with neither pattern nor keyword (absent, neutral).
C15_ValueAndDirectionIndependent ==
    probe.fn = "parse_risk_description" =>
        LET text == probe.text
            pcts == NumbersBefore(text, "%")
            muls == NumbersBefore(text, "bai")
            up == \E i \in 1..Len(text) : text[i].k \in {"josho", "zoka", "takamaru", "bai"}
            down == \E i \in 1..Len(text) : text[i].k \in {"teika", "gensho", "kaizen"}
        IN  /\ IF pcts # {}
               THEN /\ probe.effect_value # <<>>
                    /\ \E n \in pcts : probe.effect_value[1] = Rat(n, 10)
               ELSE IF muls # {}
               THEN /\ probe.effect_value # <<>>
                    /\ \E n \in muls : probe.effect_value[1] = Rat(n * 10 - 100, 1)
               ELSE probe.effect_value = <<>>
            /\ probe.effect_direction =
                   IF up THEN "increase" ELSE IF down THEN "decrease" ELSE "neutral"
            /\ text = <<W("risk"), Num(420), W("%"), W("josho")>> =>
                   /\ probe.effect_value = <<Int2Rat(42)>>
                   /\ probe.effect_direction = "increase"
            /\ text = <<W("risk"), Num(25), W("bai")>> =>
                   /\ probe.effect_value = <<Int2Rat(150)>>
                   /\ probe.effect_direction = "increase"
            /\ text = <<W("risk")>> =>
                   /\ probe.effect_value = <<>>
                   /\ probe.effect_direction = "neutral"

\* a text with a multiplier pattern and a percentage pattern, parsed
C15_Witness ==
    /\ probe.fn = "parse_risk_description"
    /\ probe.text = <<Num(25), W("bai"), Num(420), W("%")>>
    /\ probe.effect_value = <<Int2Rat(42)>>

\* the Findings of a sequence whose effect value is not absent
Valued(findings) == SelectSeq(findings, LAMBDA f : f.effect_value # <<>>)

\* sum of weight over a sequence of Findings with a value
RECURSIVE WeightSum(_)
WeightSum(findings) ==
    IF findings = <<>> THEN Int2Rat(0)
    ELSE RatAdd(get_evidence_level_weight(evidence_level_of(Head(findings))),
                WeightSum(Tail(findings)))

\* sum of weight * value over a sequence of Findings with a value
RECURSIVE WeightedValueSum(_)
WeightedValueSum(findings) ==
    IF findings = <<>> THEN Int2Rat(0)
    ELSE RatAdd(RatMul(Head(findings).effect_value[1],
                       get_evidence_level_weight(evidence_level_of(Head(findings)))),
                WeightedValueSum(Tail(findings)))

\* C16: after generate_age_risk_profiles, for every threshold that has
\* qualifying Findings with a value, the stored risk_value is the sum of
\* weight * value over the sum of weight, both taken over exactly the
\* qualifying Findings whose value is not absent; a value of 0 is a value.
C16_RiskValueIsWeightedAverageOfValued ==
    RiskProfilesGenerated =>
        \A i \in 1..Len(age_thresholds) :
            LET threshold == age_thresholds[i]
                valued == Valued(risk_findings(threshold))
            IN  valued # <<>> =>
                    /\ Len(ProfilesOf(threshold)) = 1
                    /\ ProfilesOf(threshold)[1].risk_value =
                           RatDiv(WeightedValueSum(valued), WeightSum(valued))

\* |a - b|
Distance(a, b) == RatAbs(RatSub(a, b))

\* C17: _get_evidence_level_weight returns 5.0, 4.0, 3.0, 2.0, 1.5, 1.0,
\* 0.5 for the tiers 1a, 1b, 2a, 2b, 3, 4, 5 and 0.5 for any other value;
\* and in a bucket with at least one other valued Finding of a different
\* value, the average with the Finding at tier 1a lies strictly nearer to
\* the Finding's value than the average with the same Finding at tier 5.
C17_WeightsTotalAndMonotone ==
    /\ probe.fn = "get_evidence_level_weight" =>
           probe.weight =
               CASE probe.evidence_level = "1a" -> Int2Rat(5)
                 [] probe.evidence_level = "1b" -> Int2Rat(4)
                 [] probe.evidence_level = "2a" -> Int2Rat(3)
                 [] probe.evidence_level = "2b" -> Int2Rat(2)
                 [] probe.evidence_level = "3" -> Rat(3, 2)
                 [] probe.evidence_level = "4" -> Int2Rat(1)
                 [] OTHER -> Rat(1, 2)
    /\ ( /\ probe.fn = "avg_risk"
         /\ \E i \in 1..Len(probe.others) :
               /\ probe.others[i].effect_value # <<>>
               /\ probe.others[i].effect_value # probe.effect_value ) =>
           /\ probe.tier_5 # <<>>
           /\ probe.tier_1a # <<>>
           /\ RatLt(Distance(probe.tier_1a[1], probe.effect_value[1]),
                    Distance(probe.tier_5[1], probe.effect_value[1]))

Categories ==
    {category_keywords[i][1] : i \in 1..Len(category_keywords)} \cup {"other"}

\* the valued Findings of one (issue, category) group
ValuedGroup(issue_id, category) ==
    Valued(SelectSeq(research_findings,
                     LAMBDA f : /\ f.issue_id = <<issue_id>>
                                /\ category_of(f.description_ja) = category))

\* sum of value * weight over the decrease Findings minus the same sum over
\* the increase Findings
RECURSIVE SignedValueSum(_)
SignedValueSum(findings) ==
    IF findings = <<>> THEN Int2Rat(0)
    ELSE LET f == Head(findings)
             term == RatMul(f.effect_value[1],
                            get_evidence_level_weight(evidence_level_of(f)))
             rest == SignedValueSum(Tail(findings))
         IN  IF f.effect_direction = "decrease" THEN RatAdd(rest, term)
             ELSE IF f.effect_direction = "increase" THEN RatSub(rest, term)
             ELSE rest

CountDirection(findings, direction) ==
    Len(SelectSeq(findings, LAMBDA f : f.effect_direction = direction))

EffectsOf(issue_id, category) ==
    SelectSeq(committed["issue_treatment_effects"],
              LAMBDA r : r.issue_id = issue_id /\ r.effect_category = category)

TreatmentEffectsGenerated ==
    /\ last.op = "generate"
    /\ last.table = "issue_treatment_effects"
    /\ last.status = "ok"

\* C18: after generate_issue_treatment_effects, every (issue, category)
\* group with at least one valued Finding has one stored effect, of
\* magnitude |sum over valued decrease Findings of value * weight - sum over
\* valued increase Findings of value * weight| / (sum of the weights of the
\* valued Findings of the group), and of direction decrease exactly when
\* the valued decrease Findings outnumber the valued increase Findings,
\* else increase.
C18_TreatmentEffectIsSignedWeightedAverage ==
    TreatmentEffectsGenerated =>
        \A i \in 1..Len(dental_issues), category \in Categories :
            LET issue_id == dental_issues[i].issue_id
                valued == ValuedGroup(issue_id, category)
                rows == EffectsOf(issue_id, category)
            IN  valued # <<>> =>
                    /\ Len(rows) = 1
                    /\ rows[1].effect_value =
                           RatAbs(RatDiv(SignedValueSum(valued), WeightSum(valued)))
                    /\ rows[1].effect_direction =
                           IF CountDirection(valued, "decrease")
                                  > CountDirection(valued, "increase")
                           THEN "decrease" ELSE "increase"

FindingsOfIssue(issue_id) ==
    SelectSeq(research_findings, LAMBDA f : f.issue_id = <<issue_id>>)

AllEffectsOf(issue_id) ==
    SelectSeq(committed["issue_treatment_effects"], LAMBDA r : r.issue_id = issue_id)

\* (category, value) of the default effects of an issue name: the entries
\* of the names the store holds, and the fallback entry
DefaultEntries(issue_name) ==
    CASE issue_name = "sosei" -> <<<<"caries_risk", 38>>, <<"periodontal_risk", 45>>>>
      [] issue_name = "kaiko" -> <<<<"caries_risk", 58>>, <<"pronunciation", 90>>>>
      [] OTHER -> <<<<"caries_risk", 30>>, <<"periodontal_risk", 25>>>>

\* C19: after generate_issue_treatment_effects, an issue with no Finding
\* has exactly the one or two default effects of its name (of the fallback
\* entry when the name has none), each with confidence 0.5 and provenance
\* 'default'; an issue with at least one Finding has no default row.
C19_DefaultEffectsOnlyWithoutFindings ==
    TreatmentEffectsGenerated =>
        \A i \in 1..Len(dental_issues) :
            LET issue == dental_issues[i]
                rows == AllEffectsOf(issue.issue_id)
                entries == DefaultEntries(issue.issue_name_ja)
            IN  IF FindingsOfIssue(issue.issue_id) = <<>>
                THEN /\ Len(rows) = Len(entries)
                     /\ Len(rows) \in 1..2
                     /\ \A k \in 1..Len(rows) :
                           /\ rows[k].effect_category = entries[k][1]
                           /\ rows[k].effect_value = Int2Rat(entries[k][2])
                           /\ rows[k].confidence_level = Rat(5, 10)
                           /\ rows[k].calculated_from = <<Lit("default")>>
                ELSE \A k \in 1..Len(rows) :
                         rows[k].calculated_from # <<Lit("default")>>

\* effects generated for an issue with a computed effect, one with a
\* Finding but no computed effect, and one without Findings whose name has
\* no entry
C19_Witness ==
    /\ TreatmentEffectsGenerated
    /\ \E i \in 1..Len(dental_issues) :
          /\ FindingsOfIssue(dental_issues[i].issue_id) # <<>>
          /\ AllEffectsOf(dental_issues[i].issue_id) # <<>>
    /\ \E i \in 1..Len(dental_issues) :
          /\ FindingsOfIssue(dental_issues[i].issue_id) # <<>>
          /\ AllEffectsOf(dental_issues[i].issue_id) = <<>>
    /\ FindingsOfIssue(3) = <<>>
    /\ Len(AllEffectsOf(3)) = 2

ScenariosGenerated ==
    /\ last.op = "generate"
    /\ last.table = "future_scenarios"
    /\ last.status = "ok"

ScenariosOf(years, age_min, age_max) ==
    SelectSeq(committed["future_scenarios"],
              LAMBDA r : /\ r.timeframe_years = years
                         /\ r.applies_to_age_min = age_min
                         /\ r.applies_to_age_max = age_max)

\* C20: after generate_future_scenarios, future_scenarios holds exactly 9
\* rows, one for each pair of a timeframe of 5, 10, 20 years and an age
\* bucket 7-18, 19-40, 41-100, each with confidence 0.8 - years/50: 0.7, 0.6
\* and 0.4, strictly decreasing in the timeframe whatever the age bucket.
C20_NineScenariosConfidenceFalling ==
    ScenariosGenerated =>
        /\ Len(committed["future_scenarios"]) = 9
        /\ \A years \in {5, 10, 20},
              bucket \in {<<7, 18>>, <<19, 40>>, <<41, 100>>} :
              LET rows == ScenariosOf(years, bucket[1], bucket[2])
              IN  /\ Len(rows) = 1
                  /\ rows[1].confidence_level = RatSub(Rat(8, 10), Rat(years, 50))
                  /\ rows[1].confidence_level =
                         CASE years = 5 -> Rat(7, 10)
                           [] years = 10 -> Rat(6, 10)
                           [] years = 20 -> Rat(4, 10)
        /\ \A r1 \in Rows("future_scenarios"), r2 \in Rows("future_scenarios") :
              r1.timeframe_years < r2.timeframe_years =>
                  RatLt(r2.confidence_level, r1.confidence_level)

\* the scenarios generated a second time, over imported Findings
C20_Witness ==
    /\ ScenariosGenerated
    /\ pre["future_scenarios"] # <<>>
    /\ research_findings # <<>>
    /\ Len(committed["future_scenarios"]) = 9

\* ------------------------------------------------------------------------
\* reset_database is all or nothing
\* ------------------------------------------------------------------------

\* the base tables and the derived tables of the store
StoreContents ==
    <<schema, research_papers, research_findings, dental_issues, committed>>

\* the store right after initialize_db
FreshSchema ==
    /\ schema = "created"
    /\ research_papers = <<>>
    /\ research_findings = <<>>
    /\ dental_issues \in DentalIssueTables
    /\ committed = EmptyTables

\* C21: a reset_database call, whether it returns or raises, leaves the
\* store either as it was before the call or as the complete empty schema
\* that initialize_db creates; the tables are never left dropped.
C21_ResetIsAllOrNothing ==
    [][last'.op = "reset_database" =>
          (StoreContents' = StoreContents \/ FreshSchema')]_vars

\* ------------------------------------------------------------------------
\* What a reader on its own connection sees during a run
\* ------------------------------------------------------------------------

\* a SELECT of all rows of a table over a connection of the reader's own
Read(table) == committed[table]

\* the derived tables as the running call leaves them when it succeeds
PostRun ==
    [t \in TableNames |->
        IF pc.op = "generate_all" \/ t = pc.table THEN generated_rows(t)
        ELSE pre[t]]

\* C22: at every point of a running generate_* a reader on its own
\* connection finds the table of the call with its complete contents of
\* before the run or of after the run, and at every point of a running
\* generate_all_evidence_data it finds the five derived tables all as they
\* were before the run or all as the run leaves them.
C22_ReaderSeesOldOrNewTables ==
    /\ pc.op = "generate" =>
           Read(pc.table) \in {pre[pc.table], PostRun[pc.table]}
    /\ pc.op = "generate_all" =>
           \/ \A t \in TableNames : Read(t) = pre[t]
           \/ \A t \in TableNames : Read(t) = PostRun[t]

\* ------------------------------------------------------------------------
\* The age groups and the lookups by age
\* ------------------------------------------------------------------------

\* the rows of a table of age groups whose group holds the age
GroupsOf(table, age) ==
    {i \in 1..Len(conn[table]) :
        conn[table][i].age_min <= age /\ conn[table][i].age_max >= age}

\* C23: once age_timing_benefits and economic_impacts are generated, every
\* age from 1 to 100 lies in exactly one age group of either table, so
\* _calculate_timing_score returns the scaled timing_score of that group
\* and get_economic_impact the figures of that group, and neither takes its
\* fallback branch.
C23_AgeGroupsPartitionTheAges ==
    /\ conn["age_timing_benefits"] # <<>> =>
           /\ \A age \in MinAge..MaxAge :
                  Cardinality(GroupsOf("age_timing_benefits", age)) = 1
           /\ probe.fn = "calculate_timing_score" =>
                  \E i \in GroupsOf("age_timing_benefits", probe.age) :
                      probe.result =
                          Rat(conn["age_timing_benefits"][i].timing_score * 35, 100)
    /\ conn["economic_impacts"] # <<>> =>
           /\ \A age \in MinAge..MaxAge :
                  Cardinality(GroupsOf("economic_impacts", age)) = 1
           /\ probe.fn = "get_economic_impact" =>
                  \E i \in GroupsOf("economic_impacts", probe.age) :
                      /\ probe.result.current_cost =
                             conn["economic_impacts"][i].current_cost
                      /\ probe.result.future_savings =
                             conn["economic_impacts"][i].future_savings
                      /\ probe.result.roi = conn["economic_impacts"][i].roi

\* ------------------------------------------------------------------------
\* Import: references of the Findings, repeated import
\* ------------------------------------------------------------------------

\* C24: every stored Finding refers to one stored paper and to one stored
\* dental issue; no Finding is stored without an issue, whatever issue
\* names the imported rows carry.
C24_FindingHasPaperAndIssue ==
    \A i \in 1..Len(research_findings) :
        /\ Cardinality({j \in 1..Len(research_papers) :
               research_papers[j].paper_id = research_findings[i].paper_id}) = 1
        /\ research_findings[i].issue_id # <<>>
        /\ Cardinality({j \in 1..Len(dental_issues) :
               <<dental_issues[j].issue_id>> = research_findings[i].issue_id}) = 1

\* an import step all of whose rows were imported before: no paper is
\* added, and every Finding it adds equals a Finding already stored
ImportsSameRecordsAgain ==
    /\ research_papers' = research_papers
    /\ Len(research_findings') >= Len(research_findings)
    /\ \A i \in (Len(research_findings) + 1)..Len(research_findings') :
           \E j \in 1..Len(research_findings) :
               research_findings'[i] = research_findings[j]

\* C28: importing records again that are already stored, each with its DOI
\* and its risk description, changes neither the papers nor the Findings,
\* and so nothing of what the generate_* operations compute from them.
C28_ImportTwiceChangesNothing ==
    [][ImportsSameRecordsAgain =>
          /\ research_findings' = research_findings
          /\ \A t \in TableNames : generated_rows(t)' = generated_rows(t)]_vars

\* ------------------------------------------------------------------------
\* The risk sub-score
\* ------------------------------------------------------------------------

\* the thresholds of the stored risk profiles that are not below the age
ThresholdsFrom(age) ==
    {conn["age_risk_profiles"][i].age_threshold :
        i \in {j \in 1..Len(conn["age_risk_profiles"]) :
                  conn["age_risk_profiles"][j].age_threshold >= age}}

LeastOf(S) == CHOOSE x \in S : \A y \in S : x <= y

\* urgency * (risk_value / 60) * multiplier * 35 for a threshold, the
\* risk_value stored for it and n selected issues
RiskFormula(threshold, risk_value, age, n) ==
    LET urgency == IF threshold - age >= 15 THEN Int2Rat(0)
                   ELSE Rat(15 - (threshold - age), 15)
        multiplier == IF 10 + (n - 1) >= 15 THEN Rat(15, 10)
                      ELSE Rat(10 + (n - 1), 10)
    IN  RatMul(RatMul(urgency, RatMul(risk_value, Rat(35, 60))), multiplier)

\* C25: _calculate_risk_score returns 0 when no stored risk profile has a
\* threshold >= age; otherwise it takes the profile with the least such
\* threshold T and returns urgency * (risk_value / 60) * multiplier * 35,
\* with urgency = max(0, 1 - (T - age) / 15) and
\* multiplier = min(1.5, 1 + 0.1 * (n - 1)), which is 0 when T - age >= 15.
C25_RiskScoreFromNextThreshold ==
    probe.fn = "calculate_risk_score" =>
        IF ThresholdsFrom(probe.age) = {}
        THEN probe.result = Int2Rat(0)
        ELSE LET T == LeastOf(ThresholdsFrom(probe.age))
             IN  /\ \E i \in 1..Len(conn["age_risk_profiles"]) :
                        /\ conn["age_risk_profiles"][i].age_threshold = T
                        /\ probe.result =
                               RiskFormula(T, conn["age_risk_profiles"][i].risk_value,
                                           probe.age, Cardinality(probe.issue_ids))
                 /\ T - probe.age >= 15 => probe.result = Int2Rat(0)

\* a call for seven issues less than 15 years below the next threshold,
\* with a result that is not 0
C25_Witness ==
    /\ probe.fn = "calculate_risk_score"
    /\ Cardinality(probe.issue_ids) = 7
    /\ ThresholdsFrom(probe.age) # {}
    /\ LeastOf(ThresholdsFrom(probe.age)) - probe.age < 15
    /\ probe.result # Int2Rat(0)

\* ------------------------------------------------------------------------
\* The severity sub-score
\* ------------------------------------------------------------------------

\* the ids of the stored dental issues, and the severity stored for an id
IssueIds == {dental_issues[i].issue_id : i \in 1..Len(dental_issues)}

SeverityOf(issue_id) ==
    dental_issues[CHOOSE i \in 1..Len(dental_issues) :
                     dental_issues[i].issue_id = issue_id].severity_base_score

RECURSIVE SeveritySum(_)
SeveritySum(ids) ==
    IF ids = {} THEN 0
    ELSE LET id == CHOOSE x \in ids : TRUE
         IN  SeverityOf(id) + SeveritySum(ids \ {id})

\* C26: for selected issues that are all stored, the severity sub-score is
\* severity / 100 * 40 for one issue, and for several issues
\* min(40, (primary + 0.5 * sum of the others) / 100 * 40), where the
\* primary is one issue of the highest severity and every other selected
\* issue, one of equal severity included, counts among the others.
C26_SeverityFromPrimaryAndOthers ==
    (probe.fn = "calculate_severity_score" /\ probe.issue_ids \subseteq IssueIds) =>
        \E primary \in probe.issue_ids :
            /\ \A id \in probe.issue_ids : SeverityOf(id) <= SeverityOf(primary)
            /\ LET others == SeveritySum(probe.issue_ids \ {primary})
               IN  IF Cardinality(probe.issue_ids) = 1
                   THEN probe.result = Rat(SeverityOf(primary) * 40, 100)
                   ELSE probe.result =
                            RatMin(Int2Rat(40),
                                   Rat((2 * SeverityOf(primary) + others) * 40, 200))

\* a call for two issues of the same, highest severity with a result
\* below the cap
C26_Witness ==
    /\ probe.fn = "calculate_severity_score"
    /\ probe.issue_ids \subseteq IssueIds
    /\ \E a \in probe.issue_ids, b \in probe.issue_ids :
           /\ a # b
           /\ SeverityOf(a) = SeverityOf(b)
           /\ \A id \in probe.issue_ids : SeverityOf(id) <= SeverityOf(a)
    /\ RatLt(probe.result, Int2Rat(40))

\* ------------------------------------------------------------------------
\* The narrative of a risk profile
\* ------------------------------------------------------------------------

HasClause(row, clause) ==
    \E i \in 1..Len(row.description_ja) : row.description_ja[i] = clause

\* C27: the narrative of every stored age_risk_profiles row, computed or
\* default, has the tooth-loss sentence, the periodontal clause exactly for
\* a threshold >= 18, the TMJ clause exactly for >= 25, the
\* mastication clause exactly for >= 40 and the speech clause exactly for
\* >= 60.
C27_NarrativeClausesFollowGates ==
    \A row \in Rows("age_risk_profiles") :
        /\ HasClause(row, "tooth_loss")
        /\ HasClause(row, "periodontal") <=> row.age_threshold >= 18
        /\ HasClause(row, "tmj") <=> row.age_threshold >= 25
        /\ HasClause(row, "mastication") <=> row.age_threshold >= 40
        /\ HasClause(row, "speech") <=> row.age_threshold >= 60

\* ------------------------------------------------------------------------
\* Every dental issue has a treatment effect
\* ------------------------------------------------------------------------

\* C29: after a successful generate_issue_treatment_effects every stored
\* dental issue has at least one issue_treatment_effects row, whether it
\* has no Findings, only Findings without a value, or Findings with one.
C29_EveryIssueHasAnEffect ==
    TreatmentEffectsGenerated =>
        \A i \in 1..Len(dental_issues) :
            AllEffectsOf(dental_issues[i].issue_id) # <<>>

\* ------------------------------------------------------------------------
\* The score and the number of selected issues
\* ------------------------------------------------------------------------

\* C30: for the age and the tables of a scoring call with a non-empty
\* selection, the call with one more stored issue selected returns a
\* total_score, a severity_score and a risk_score that are each not lower.
C30_ScoreMonotoneInSelection ==
    Scored =>
        \A extra \in IssueIds \ score.issue_ids :
            LET more == necessity_score(score.age, score.issue_ids \cup {extra})
            IN  /\ score.result.total_score <= more.total_score
                /\ score.result.severity_score <= more.severity_score
                /\ score.result.risk_score <= more.risk_score

====
